---- MODULE Spec2Model ----
(***************************************************************************)
(* A model of flexhr (src/src/index.js): the plugin registry, the request *)
(* builder with its plugin composition, the verb functions, parameter      *)
(* encoding, and the status-driven response dispatcher handleResponse.     *)
(*                                                                         *)
(* JavaScript values are tagged records [t |-> <type>, ...].  Strings the  *)
(* program builds or takes apart (URLs, JSON text, header values) are      *)
(* sequences of tokens, so that concatenation, splitting, JSON.stringify   *)
(* and JSON.parse are computed rather than assumed.                        *)
(***************************************************************************)
EXTENDS Integers, Sequences, FiniteSets, TLC

VARIABLES plugins, requests, dispatch

vars == <<plugins, requests, dispatch>>

\* Longest registry explored.
MaxPlugins == 3
\* Number of verb calls explored, all of which may be in flight together.
MaxRequests == 2

(***************************************************************************)
(* JavaScript values                                                       *)
(***************************************************************************)
Undefined == [t |-> "undefined"]
Null == [t |-> "null"]
Num(n) == [t |-> "num", v |-> n]
NaN == [t |-> "nan"]
Str(s) == [t |-> "str", v |-> s]
Bool(b) == [t |-> "bool", v |-> b]
\* a string given by its tokens (text the program builds or takes apart)
Text(tokens) == [t |-> "text", v |-> tokens]
\* a plain object: its own enumerable properties, in insertion order
Obj(props) == [t |-> "obj", v |-> props]
Arr(elems) == [t |-> "arr", v |-> elems]
\* a host object (FormData, URLSearchParams), known by class and identity
Host(class, ref) == [t |-> "host", class |-> class, ref |-> ref]

\* JavaScript truthiness, as used by `if (options.params)` and `a || b`
Truthy(v) ==
  CASE v.t \in {"undefined", "null", "nan"} -> FALSE
    [] v.t = "num" -> v.v # 0
    [] v.t = "str" -> v.v # ""
    [] v.t = "text" -> v.v # <<>>
    [] v.t = "bool" -> v.v
    [] OTHER -> TRUE

\* {}.toString.call(v)
ObjectToString(v) ==
  CASE v.t = "obj" -> "[object Object]"
    [] v.t = "arr" -> "[object Array]"
    [] v.t = "host" -> "[object " \o v.class \o "]"
    [] v.t = "undefined" -> "[object Undefined]"
    [] v.t = "null" -> "[object Null]"
    [] v.t \in {"num", "nan"} -> "[object Number]"
    [] v.t \in {"str", "text"} -> "[object String]"
    [] OTHER -> "[object Boolean]"

IsArray(v) == v.t = "arr"

(***************************************************************************)
(* Text: a string is a sequence of tokens.                                 *)
(***************************************************************************)
\* decimal rendering of the numbers the model uses
NumText(n) ==
  CASE n = 0 -> "0" [] n = 1 -> "1" [] n = 2 -> "2" [] n = 12 -> "12" [] OTHER -> "?"

Numerals == {"0", "1", "2", "12"}

TextNum(s) ==
  CASE s = "0" -> 0 [] s = "1" -> 1 [] s = "2" -> 2 [] OTHER -> 12

Quote == "\""

\* the tokens of a JSON string literal
JsonStringLiteral(s) == <<Quote, s, Quote>>

RECURSIVE JoinWith(_, _)
\* parts joined with a separator token
JoinWith(parts, sep) ==
  IF parts = <<>> THEN <<>>
  ELSE IF Len(parts) = 1 THEN parts[1]
  ELSE parts[1] \o <<sep>> \o JoinWith(Tail(parts), sep)

\* JSON.stringify of a primitive in value position: what JSON cannot
\* express (undefined, NaN) is written as null
JsonPrimitive(v) ==
  CASE v.t = "num" -> <<NumText(v.v)>>
    [] v.t = "str" -> JsonStringLiteral(v.v)
    [] v.t = "bool" -> <<IF v.v THEN "true" ELSE "false">>
    [] OTHER -> <<"null">>

\* JSON.stringify(v) for plain objects and arrays of primitives
JsonStringify(v) ==
  IF v.t = "obj" THEN
    LET kept == SelectSeq(v.v, LAMBDA kv : kv[2].t # "undefined")
        member(kv) == JsonStringLiteral(kv[1]) \o <<":">> \o JsonPrimitive(kv[2])
    IN <<"{">> \o JoinWith([i \in 1..Len(kept) |-> member(kept[i])], ",") \o <<"}">>
  ELSE IF v.t = "arr" THEN
    <<"[">> \o JoinWith([i \in 1..Len(v.v) |-> JsonPrimitive(v.v[i])], ",") \o <<"]">>
  ELSE JsonPrimitive(v)

\* the token at position i, or "" past the end
TokenAt(toks, i) == IF i \in 1..Len(toks) THEN toks[i] ELSE ""

SyntaxError == [ok |-> FALSE]

Parsed(v, next) == [ok |-> TRUE, v |-> v, next |-> next]

\* JSON.parse of a primitive starting at position i
ParsePrimitive(toks, i) ==
  LET tok == TokenAt(toks, i) IN
  CASE tok \in Numerals -> Parsed(Num(TextNum(tok)), i + 1)
    [] tok = "null" -> Parsed(Null, i + 1)
    [] tok = "true" -> Parsed(Bool(TRUE), i + 1)
    [] tok = "false" -> Parsed(Bool(FALSE), i + 1)
    [] tok = Quote /\ TokenAt(toks, i + 2) = Quote /\ i + 2 <= Len(toks) ->
         Parsed(Str(toks[i + 1]), i + 3)
    [] OTHER -> SyntaxError

RECURSIVE ParseMembers(_, _, _)
\* the members of an object from position i on, up to its closing brace
ParseMembers(toks, i, acc) ==
  LET key == ParsePrimitive(toks, i) IN
  IF ~key.ok \/ key.v.t # "str" \/ TokenAt(toks, key.next) # ":" THEN SyntaxError
  ELSE LET val == ParsePrimitive(toks, key.next + 1) IN
       IF ~val.ok THEN SyntaxError
       ELSE LET props == Append(acc, <<key.v.v, val.v>>) IN
            CASE TokenAt(toks, val.next) = "}" -> Parsed(Obj(props), val.next + 1)
              [] TokenAt(toks, val.next) = "," -> ParseMembers(toks, val.next + 1, props)
              [] OTHER -> SyntaxError

RECURSIVE ParseElements(_, _, _)
\* the elements of an array from position i on, up to its closing bracket
ParseElements(toks, i, acc) ==
  LET val == ParsePrimitive(toks, i) IN
  IF ~val.ok THEN SyntaxError
  ELSE LET elems == Append(acc, val.v) IN
       CASE TokenAt(toks, val.next) = "]" -> Parsed(Arr(elems), val.next + 1)
         [] TokenAt(toks, val.next) = "," -> ParseElements(toks, val.next + 1, elems)
         [] OTHER -> SyntaxError

\* JSON.parse(toks): [ok |-> TRUE, v |-> value], or SyntaxError when it throws
JsonParse(toks) ==
  LET r == CASE TokenAt(toks, 1) = "{" /\ TokenAt(toks, 2) = "}" -> Parsed(Obj(<<>>), 3)
             [] TokenAt(toks, 1) = "{" -> ParseMembers(toks, 2, <<>>)
             [] TokenAt(toks, 1) = "[" /\ TokenAt(toks, 2) = "]" -> Parsed(Arr(<<>>), 3)
             [] TokenAt(toks, 1) = "[" -> ParseElements(toks, 2, <<>>)
             [] OTHER -> ParsePrimitive(toks, 1)
  IN IF r.ok /\ r.next = Len(toks) + 1 THEN [ok |-> TRUE, v |-> r.v] ELSE SyntaxError

\* query-string's stringify(params): key=value pairs joined by "&",
\* undefined values left out; an array is read by its indices.  Only
\* objects and arrays are given pairs here.
QueryStringify(v) ==
  LET pairs == IF v.t = "obj" THEN SelectSeq(v.v, LAMBDA kv : kv[2].t # "undefined")
               ELSE IF v.t = "arr" THEN [i \in 1..Len(v.v) |-> <<NumText(i - 1), v.v[i]>>]
               ELSE <<>>
      text(x) == CASE x.t = "num" -> NumText(x.v) [] x.t = "str" -> x.v
                   [] x.t = "bool" -> (IF x.v THEN "true" ELSE "false") [] OTHER -> ""
      pair(kv) == IF kv[2].t = "null" THEN <<kv[1]>> ELSE <<kv[1], "=", text(kv[2])>>
  IN JoinWith([i \in 1..Len(pairs) |-> pair(pairs[i])], "&")

(***************************************************************************)
(* Headers: a map from lower-cased header name to value.                   *)
(***************************************************************************)
\* header names are case-insensitive: the Headers class lower-cases them
LowerName(name) ==
  CASE name = "Content-Type" -> "content-type"
    [] name = "Authorization" -> "authorization"
    [] OTHER -> name

\* new Headers(init) for a keyed mapping init, given as <<name, value>> pairs
NewHeaders(pairs) ==
  [n \in {LowerName(pairs[i][1]) : i \in 1..Len(pairs)} |->
     LET i == CHOOSE j \in 1..Len(pairs) : LowerName(pairs[j][1]) = n IN pairs[i][2]]

\* headers.set(name, value)
HeadersSet(h, name, value) ==
  [n \in DOMAIN h \cup {LowerName(name)} |->
     IF n = LowerName(name) THEN value ELSE h[n]]

\* headers.get(name): the value, or Null when the header is absent
HeadersGet(h, name) ==
  IF LowerName(name) \in DOMAIN h THEN h[LowerName(name)] ELSE Null

(***************************************************************************)
(* Plugins: the functions callers hand to addPlugin.  A plugin is known by *)
(* name; what its decorator and its wrapper do is given per name.          *)
(***************************************************************************)
None == [t |-> "none"]

\* apiUrl is the URL-prefixing plugin of the test suite; anon prefixes too
\* and carries no id; cache answers without calling next; reset carries no
\* id and calls __clearPlugins() from inside its decorator.
PluginNames == {"apiUrl", "anon", "cache", "reset"}

\* plugin.id: a string, or Undefined when the function has no id property
PluginIdOf(p) ==
  CASE p = "apiUrl" -> Str("apiUrl")
    [] p = "cache" -> Str("cache")
    [] OTHER -> Undefined

\* the plugin stack after addPlugin(fn)
addPlugin(stack, fn) == Append(stack, fn)

\* the plugin stack after __clearPlugins()
clearPlugins(stack) == <<>>

\* plugin(next) called by the reduce: st carries the function built so far
\* (a chain of wrappers, outermost first, around the base function <<>>),
\* the plugin stack, and the log of calls
Decorate(p, st) ==
  [next |-> <<p>> \o st.next,
   reg |-> IF p = "reset" THEN clearPlugins(st.reg) ELSE st.reg,
   log |-> Append(st.log, [ev |-> "decorator", plugin |-> p])]

RECURSIVE ReduceFrom(_, _, _, _)
\* Array.prototype.reduce from index k: the length is read once, before
\* the first callback, and an index that is no longer present is skipped.
\* arr is the array reduced: None when it is the plugin stack itself.
ReduceFrom(k, len, arr, st) ==
  IF k > len THEN st
  ELSE LET O == IF arr = None THEN st.reg ELSE arr.v IN
       IF k > Len(O) THEN ReduceFrom(k + 1, len, arr, st)
       ELSE ReduceFrom(k + 1, len, arr, Decorate(O[k], st))

\* a Response: status, ok (status in 200..299), headers, body text
Response(status, headers, body) ==
  [t |-> "Response", status |-> status, ok |-> status \in 200..299,
   headers |-> headers, body |-> body]

\* new ConnectionError(originalError)
ConnectionError(originalError) ==
  [t |-> "ConnectionError", message |-> originalError.message,
   error |-> originalError, status |-> 0, ok |-> FALSE]

\* what the cache plugin answers with
CachedResponse == Response(200, NewHeaders(<<>>), <<"cached">>)

RECURSIVE Invoke(_, _, _, _)
\* fetcher(url, init): each wrapper runs and calls the next one, down to
\* the base function, which calls fetch.  sent is what fetch was called
\* with (None if it was not called), result what came back without fetch.
Invoke(fetcher, url, init, log) ==
  IF fetcher = <<>>
  THEN [log |-> Append(log, [ev |-> "fetch", plugin |-> ""]),
        sent |-> [url |-> url, init |-> init], result |-> None]
  ELSE LET p == Head(fetcher)
           entered == Append(log, [ev |-> "wrapper", plugin |-> p])
       IN CASE p = "cache" -> [log |-> entered, sent |-> None, result |-> CachedResponse]
            [] p = "apiUrl" -> Invoke(Tail(fetcher), <<"/api">> \o url, init, entered)
            [] p = "anon" -> Invoke(Tail(fetcher), <<"/v1">> \o url, init, entered)
            [] OTHER -> Invoke(Tail(fetcher), url, init, entered)

(***************************************************************************)
(* request and the verb functions                                          *)
(***************************************************************************)
\* encodeParams(params, headers): the body, and the headers as left
encodeParams(params, headers) ==
  IF ObjectToString(params) = "[object Object]" \/ IsArray(params)
  THEN [body |-> Text(JsonStringify(params)),
        headers |-> HeadersSet(headers, "Content-Type", Text(<<"application/json">>))]
  ELSE [body |-> params, headers |-> headers]

\* options.skipPlugins.includes(id)
Includes(list, id) == \E i \in 1..Len(list.v) : list.v[i] = id

\* applicablePlugins with the filter keeping every plugin
applicablePlugins_KeepAll(stack, skipPlugins) == Arr(stack)

\* plugins.filter(...): a new array of the plugins that are not skipped
applicablePlugins(stack, skipPlugins) ==
  Arr(SelectSeq(stack, LAMBDA plugin :
        IF PluginIdOf(plugin) = Undefined THEN TRUE
        ELSE ~Includes(skipPlugins, PluginIdOf(plugin))))

\* request(method, url, options) up to the point where it returns the
\* promise of fetcher(url, init): the plugin stack as the decorators left
\* it, the function built, the log of calls, and what was sent
request(stack, method, url, options) ==
  LET headers0 == NewHeaders(IF Truthy(options.headers) THEN options.headers.v ELSE <<>>)
      encoded == IF Truthy(options.params) THEN encodeParams(options.params, headers0)
                 ELSE [body |-> None, headers |-> headers0]
      init == [method |-> method, headers |-> encoded.headers, body |-> encoded.body]
      applicable == IF Truthy(options.skipPlugins)
                    THEN applicablePlugins(stack, options.skipPlugins)
                    ELSE None
      len == IF applicable = None THEN Len(stack) ELSE Len(applicable.v)
      built == ReduceFrom(1, len, applicable, [next |-> <<>>, reg |-> stack, log |-> <<>>])
      called == Invoke(built.next, url, init, built.log)
  IN [reg |-> built.reg, fetcher |-> built.next, log |-> called.log,
      sent |-> called.sent, result |-> called.result]

\* GET with the params left in the options it passes on
GET_KeepsParams(stack, url, options) ==
  IF Truthy(options.params)
  THEN request(stack, "GET", url \o <<"?">> \o QueryStringify(options.params), options)
  ELSE request(stack, "GET", url, options)

\* GET(url, options)
GET(stack, url, options) ==
  IF Truthy(options.params)
  THEN request(stack, "GET", url \o <<"?">> \o QueryStringify(options.params),
               [options EXCEPT !.params = Undefined])
  ELSE request(stack, "GET", url, options)

\* the verb functions: POST, PUT, PATCH and DELETE are request bound to
\* the method name
Verb(stack, method, url, options) ==
  IF method = "GET" THEN GET(stack, url, options)
  ELSE request(stack, method, url, options)

(***************************************************************************)
(* The transport and the state of a verb call                              *)
(***************************************************************************)
\* an Error object as fetch throws it
Error(message) == [t |-> "Error", message |-> message]

\* a promise that has been fulfilled or rejected
Fulfilled(value) == [settled |-> "fulfilled", value |-> value]

Rejected(reason) == [settled |-> "rejected", value |-> reason]

\* baseFetcher with the catch re-throwing the failure
baseFetcher_Rethrow(answer) ==
  IF answer.settled = "fulfilled" THEN Fulfilled(answer.value)
  ELSE Rejected(answer.value)

\* the base function `async (url, init) => { try { return await fetch(url,
\* init) } catch (e) { return Promise.resolve(new ConnectionError(e)) } }`
\* once fetch has answered: its own promise
baseFetcher(answer) ==
  IF answer.settled = "fulfilled" THEN Fulfilled(answer.value)
  ELSE Fulfilled(ConnectionError(answer.value))

\* A verb call is idle (not made), pending (fetch called, not answered),
\* answered (a wrapper answered without fetch; the caller has not resumed)
\* or settled (the caller holds the outcome; the call's frame is gone).
\* snapshot is the plugin stack as it was when the verb was called.
Idle ==
  [state |-> "idle", method |-> "", url |-> <<>>, options |-> None,
   snapshot |-> <<>>, fetcher |-> <<>>, log |-> <<>>, sent |-> None,
   outcome |-> None, failure |-> None]

Settled(outcome, failure) ==
  [Idle EXCEPT !.state = "settled", !.outcome = outcome, !.failure = failure]

\* the options objects callers pass
Options(params, headers, skipPlugins, noFetch) ==
  [params |-> params, headers |-> headers, skipPlugins |-> skipPlugins,
   noFetch |-> noFetch]

Methods == {"GET", "POST", "PUT", "PATCH", "DELETE"}

Urls == {<<"/test">>}

\* the skipPlugins values explored: absent, one id, two ids
SkipLists ==
  {Undefined, Arr(<<Str("cache")>>), Arr(<<Str("auth"), Str("apiUrl")>>)}

\* what the transport may answer with
TransportResponses == {Response(200, NewHeaders(<<>>), <<"response">>)}

\* what the transport may fail with
TransportFailures == {Error("Failed to fetch"), Error("The user aborted a request.")}

RequestIds == 1..MaxRequests

\* the slot the next verb call takes: the first one not in flight
NextSlot(r) ==
  /\ requests[r].state \in {"idle", "settled"}
  /\ \A q \in 1..(r - 1) : requests[q].state \notin {"idle", "settled"}

(***************************************************************************)
(* Actions                                                                 *)
(***************************************************************************)
\* addPlugin(fn); a plugin function is registered once at a time
AddPlugin(fn) ==
  /\ Len(plugins) < MaxPlugins
  /\ \A i \in 1..Len(plugins) : plugins[i] # fn
  /\ plugins' = addPlugin(plugins, fn)
  /\ UNCHANGED <<requests, dispatch>>

\* __clearPlugins()
ClearPlugins ==
  /\ plugins # <<>>
  /\ plugins' = clearPlugins(plugins)
  /\ UNCHANGED <<requests, dispatch>>

\* GET/POST/PUT/PATCH/DELETE(url, options), up to the return of the promise
CallVerb(r, method, url, options) ==
  /\ NextSlot(r)
  /\ LET out == Verb(plugins, method, url, options) IN
       /\ plugins' = out.reg
       /\ requests' = [requests EXCEPT ![r] =
            [state |-> IF out.sent = None THEN "answered" ELSE "pending",
             method |-> method, url |-> url, options |-> options,
             snapshot |-> plugins, fetcher |-> out.fetcher, log |-> out.log,
             sent |-> out.sent,
             outcome |-> IF out.sent = None THEN Fulfilled(out.result) ELSE None,
             failure |-> None]]
  /\ UNCHANGED dispatch

\* fetch resolves with a response, and the caller resumes
FetchResolve(r, response) ==
  /\ requests[r].state = "pending"
  /\ requests' = [requests EXCEPT ![r] = Settled(baseFetcher(Fulfilled(response)), None)]
  /\ UNCHANGED <<plugins, dispatch>>

\* fetch throws or rejects, and the caller resumes
FetchReject(r, e) ==
  /\ requests[r].state = "pending"
  /\ requests' = [requests EXCEPT ![r] = Settled(baseFetcher(Rejected(e)), e)]
  /\ UNCHANGED <<plugins, dispatch>>

\* the caller resumes with what a wrapper answered
Resume(r) ==
  /\ requests[r].state = "answered"
  /\ requests' = [requests EXCEPT ![r] = Settled(requests[r].outcome, None)]
  /\ UNCHANGED <<plugins, dispatch>>

Init ==
  /\ plugins = <<>>
  /\ requests = [r \in RequestIds |-> Idle]
  /\ dispatch = None

\* the calls of the plugin specification, one at a time: every verb, no
\* params, every skipPlugins
PluginCall ==
  \E method \in Methods, url \in Urls, skip \in SkipLists :
    CallVerb(1, method, url, Options(Undefined, Undefined, skip, Undefined))

\* The registry and one verb call at a time; the registry may change while
\* the call is in flight.
Next ==
  \/ \E fn \in PluginNames : AddPlugin(fn)
  \/ ClearPlugins
  \/ PluginCall
  \/ \E response \in TransportResponses : FetchResolve(1, response)
  \/ \E e \in TransportFailures : FetchReject(1, e)
  \/ Resume(1)

Spec == Init /\ [][Next]_vars

\* the calls of the concurrent specification: GET with every skipPlugins,
\* from any caller
ConcurrentCall ==
  \E r \in RequestIds, url \in Urls, skip \in SkipLists :
    CallVerb(r, "GET", url, Options(Undefined, Undefined, skip, Undefined))

\* The registry and up to MaxRequests verb calls in flight together.
NextConcurrent ==
  \/ \E fn \in PluginNames : AddPlugin(fn)
  \/ ClearPlugins
  \/ ConcurrentCall
  \/ \E r \in RequestIds, response \in TransportResponses : FetchResolve(r, response)
  \/ \E r \in RequestIds, e \in TransportFailures : FetchReject(r, e)
  \/ \E r \in RequestIds : Resume(r)

SpecConcurrent == Init /\ [][NextConcurrent]_vars

(***************************************************************************)
(* The verb calls with params, headers and noFetch                         *)
(***************************************************************************)
\* the params values explored: absent and other falsy values, plain
\* objects and arrays (some with members JSON cannot express), host
\* objects, and a non-empty string
ParamValues ==
  {Undefined, Null, Num(0), Str(""),
   Obj(<<<<"filter", Num(12)>>>>), Obj(<<<<"name", Str("John Doe")>>>>), Obj(<<>>),
   Obj(<<<<"a", Num(1)>>, <<"b", Bool(TRUE)>>>>), Arr(<<Num(1), Num(2)>>),
   Obj(<<<<"name", Undefined>>>>), Arr(<<Num(1), NaN>>),
   Host("FormData", 1), Host("URLSearchParams", 2), Str("raw text")}

\* the headers options explored
HeaderValues ==
  {Undefined, Obj(<<<<"Authorization", Text(<<"Bearer 1234">>)>>>>),
   Obj(<<<<"Content-Type", Text(<<"text/plain">>)>>>>)}

\* the calls of the params specification, one at a time
ParamsCall ==
  \E method \in Methods, url \in Urls, params \in ParamValues,
     headers \in HeaderValues, noFetch \in {Undefined, Bool(TRUE)} :
    CallVerb(1, method, url, Options(params, headers, Undefined, noFetch))

InitParams ==
  /\ plugins \in {<<>>, <<"anon">>}
  /\ requests = [r \in RequestIds |-> Idle]
  /\ dispatch = None

NextParams ==
  \/ ParamsCall
  \/ \E response \in TransportResponses : FetchResolve(1, response)
  \/ \E e \in TransportFailures : FetchReject(1, e)

SpecParams == InitParams /\ [][NextParams]_vars

(***************************************************************************)
(* handleResponse                                                          *)
(***************************************************************************)
\* the part of a header value before the first ";" (value.split(';')[0])
SplitFirst(value) ==
  IF \E i \in 1..Len(value) : value[i] = ";"
  THEN SubSeq(value, 1, (CHOOSE i \in 1..Len(value) :
                           /\ value[i] = ";"
                           /\ \A j \in 1..(i - 1) : value[j] # ";") - 1)
  ELSE value

\* response instanceof Error
InstanceOfError(response) == response.t \in {"Error", "ConnectionError"}

\* decodeBody with the 204 test after the content-type tests
decodeBody_ContentTypeFirst(response) ==
  IF InstanceOfError(response)
  THEN [data |-> Fulfilled(Obj(<<<<"error", Str(response.message)>>>>)), bodyUsed |-> FALSE]
  ELSE LET cTypeHeader == HeadersGet(response.headers, "content-type")
           contentType == IF Truthy(cTypeHeader)
                          THEN SplitFirst(cTypeHeader.v) ELSE <<"text/plain">>
       IN IF contentType = <<"application/json">>
          THEN [data |-> (IF JsonParse(response.body).ok
                          THEN Fulfilled(JsonParse(response.body).v)
                          ELSE Rejected(Error("Unexpected token in JSON"))),
                bodyUsed |-> TRUE]
          ELSE IF response.status = 204
          THEN [data |-> Fulfilled(Undefined), bodyUsed |-> FALSE]
          ELSE [data |-> Fulfilled(Text(response.body)), bodyUsed |-> TRUE]

\* decodeBody handing on the connection failure's message bare
decodeBody_BareMessage(response) ==
  IF InstanceOfError(response)
  THEN [data |-> Fulfilled(Str(response.message)), bodyUsed |-> FALSE]
  ELSE LET cTypeHeader == HeadersGet(response.headers, "content-type")
           contentType == IF Truthy(cTypeHeader)
                          THEN SplitFirst(cTypeHeader.v) ELSE <<"text/plain">>
       IN IF response.status = 204
          THEN [data |-> Fulfilled(Undefined), bodyUsed |-> FALSE]
          ELSE IF contentType = <<"application/json">>
          THEN [data |-> (IF JsonParse(response.body).ok
                          THEN Fulfilled(JsonParse(response.body).v)
                          ELSE Rejected(Error("Unexpected token in JSON"))),
                bodyUsed |-> TRUE]
          ELSE [data |-> Fulfilled(Text(response.body)), bodyUsed |-> TRUE]

\* decodeBody(response): what `await decoder(response)` gives, and whether
\* the body was read
decodeBody(response) ==
  IF InstanceOfError(response)
  THEN [data |-> Fulfilled(Obj(<<<<"error", Str(response.message)>>>>)), bodyUsed |-> FALSE]
  ELSE LET cTypeHeader == HeadersGet(response.headers, "content-type")
           contentType == IF Truthy(cTypeHeader)
                          THEN SplitFirst(cTypeHeader.v) ELSE <<"text/plain">>
       IN IF response.status = 204
          THEN [data |-> Fulfilled(Undefined), bodyUsed |-> FALSE]
          ELSE IF contentType = <<"application/json">>
          THEN [data |-> (IF JsonParse(response.body).ok
                          THEN Fulfilled(JsonParse(response.body).v)
                          ELSE Rejected(Error("Unexpected token in JSON"))),
                bodyUsed |-> TRUE]
          ELSE [data |-> Fulfilled(Text(response.body)), bodyUsed |-> TRUE]

\* a decode method of the caller: "fixed" resolves to a payload of its
\* own, "failing" rejects
CustomDecode(decode, response) ==
  IF decode.name = "fixed"
  THEN [data |-> Fulfilled(Str("decoded by the caller")), bodyUsed |-> FALSE]
  ELSE [data |-> Rejected(Error("cannot decode")), bodyUsed |-> FALSE]

\* handlers[name]: the handler function, known by its name, or Undefined
HandlerAt(handlers, name) ==
  IF name \in handlers.keys THEN [t |-> "function", name |-> name] ELSE Undefined

\* h(data) for a handler of the caller: it returns a value that tells which
\* handler produced it and from what; calling undefined throws
CallHandler(h, data) ==
  IF h = Undefined THEN Rejected(Error("is not a function"))
  ELSE Fulfilled([t |-> "returned", by |-> h.name, data |-> data])

\* handleResponse(response, handlers) up to its await: the decoder has
\* been called, and the fallback chosen
handleResponseStart(response, handlers) ==
  LET decoded == IF handlers.decode # None THEN CustomDecode(handlers.decode, response)
                 ELSE decodeBody(response)
  IN [phase |-> "awaiting", response |-> response, handlers |-> handlers,
      status |-> response.status,
      fallback |-> IF response.ok THEN HandlerAt(handlers, "onOK")
                   ELSE HandlerAt(handlers, "onError"),
      decoded |-> decoded.data, bodyUsed |-> decoded.bodyUsed,
      invoked |-> <<>>, outcome |-> None]

\* handleResponseFinish with the fallback taking precedence
handleResponseFinish_FallbackFirst(d) ==
  IF d.decoded.settled = "rejected"
  THEN [d EXCEPT !.phase = "settled", !.outcome = Rejected(d.decoded.value)]
  ELSE LET specific == HandlerAt(d.handlers, "on" \o ToString(d.status))
           h == IF d.fallback # Undefined THEN d.fallback ELSE specific
       IN [d EXCEPT !.phase = "settled",
                    !.invoked = IF h = Undefined THEN @
                                ELSE Append(@, [name |-> h.name, data |-> d.decoded.value]),
                    !.outcome = CallHandler(h, d.decoded.value)]

\* handleResponseFinish with a decode failure swallowed
handleResponseFinish_SwallowsDecode(d) ==
  IF d.decoded.settled = "rejected"
  THEN [d EXCEPT !.phase = "settled", !.outcome = Fulfilled(Undefined)]
  ELSE LET specific == HandlerAt(d.handlers, "on" \o ToString(d.status))
           h == IF specific # Undefined THEN specific ELSE d.fallback
       IN [d EXCEPT !.phase = "settled",
                    !.invoked = IF h = Undefined THEN @
                                ELSE Append(@, [name |-> h.name, data |-> d.decoded.value]),
                    !.outcome = CallHandler(h, d.decoded.value)]

\* handleResponseFinish with a decode failure handed to the fallback
handleResponseFinish_CatchesDecode(d) ==
  LET specific == HandlerAt(d.handlers, "on" \o ToString(d.status))
      h == IF specific # Undefined THEN specific ELSE d.fallback
  IN [d EXCEPT !.phase = "settled",
               !.invoked = IF h = Undefined THEN @
                           ELSE Append(@, [name |-> h.name, data |-> d.decoded.value]),
               !.outcome = CallHandler(h, d.decoded.value)]

\* handleResponse after its await: the handler is chosen and called
handleResponseFinish(d) ==
  IF d.decoded.settled = "rejected"
  THEN [d EXCEPT !.phase = "settled", !.outcome = Rejected(d.decoded.value)]
  ELSE LET specific == HandlerAt(d.handlers, "on" \o ToString(d.status))
           h == IF specific # Undefined THEN specific ELSE d.fallback
       IN [d EXCEPT !.phase = "settled",
                    !.invoked = IF h = Undefined THEN @
                                ELSE Append(@, [name |-> h.name, data |-> d.decoded.value]),
                    !.outcome = CallHandler(h, d.decoded.value)]

\* the responses handed to handleResponse
Statuses == {200, 204, 400, 404, 500}

ContentTypes ==
  {Null, Text(<<"application/json">>),
   Text(<<"application/json", ";", "charset=utf8">>), Text(<<"text/html">>)}

Bodies ==
  {JsonStringify(Obj(<<<<"data", Str("foo")>>>>)), <<"{", Quote, "data">>,
   <<"Server error">>}

ResponseLikes ==
  {Response(status, IF ctype = Null THEN NewHeaders(<<>>)
                    ELSE NewHeaders(<<<<"Content-Type", ctype>>>>), body) :
     status \in Statuses, ctype \in ContentTypes, body \in Bodies}
  \cup {ConnectionError(e) : e \in TransportFailures}

\* the handler tables: onOK and onError are mandatory, the rest optional
HandlerTables ==
  {[keys |-> {"onOK", "onError"} \cup specific, decode |-> decode] :
     specific \in SUBSET {"on200", "on204", "on404", "on0"},
     decode \in {None, [t |-> "function", name |-> "fixed"],
                  [t |-> "function", name |-> "failing"]}}

\* handleResponse(response, handlers) is called
HandleResponse(response, handlers) ==
  /\ dispatch = None
  /\ dispatch' = handleResponseStart(response, handlers)
  /\ UNCHANGED <<plugins, requests>>

\* the awaited decoder settles and handleResponse goes on
HandleResponseResume ==
  /\ dispatch # None
  /\ dispatch.phase = "awaiting"
  /\ dispatch' = handleResponseFinish(dispatch)
  /\ UNCHANGED <<plugins, requests>>

\* the caller has taken the outcome
HandleResponseReturn ==
  /\ dispatch # None
  /\ dispatch.phase = "settled"
  /\ dispatch' = None
  /\ UNCHANGED <<plugins, requests>>

InitDispatch ==
  /\ plugins \in {<<>>, <<"apiUrl">>, <<"reset", "cache">>}
  /\ requests = [r \in RequestIds |-> Idle]
  /\ dispatch = None

NextDispatch ==
  \/ \E response \in ResponseLikes, handlers \in HandlerTables :
       HandleResponse(response, handlers)
  \/ HandleResponseResume
  \/ HandleResponseReturn

SpecDispatch == InitDispatch /\ [][NextDispatch]_vars

(***************************************************************************)
(* Properties of the plugin composition                                    *)
(***************************************************************************)
Reverse(s) == [i \in 1..Len(s) |-> s[Len(s) + 1 - i]]

\* the calls in flight, whose frame is still there to look at
InFlight == {r \in RequestIds : requests[r].state \in {"pending", "answered"}}

\* the plugins whose decorator (ev = "decorator") or wrapper (ev =
\* "wrapper") a call invoked, in the order of the invocations
Invoked(r, ev) ==
  LET hits == SelectSeq(requests[r].log, LAMBDA e : e.ev = ev)
  IN [i \in 1..Len(hits) |-> hits[i].plugin]

\* the ids named by a skipPlugins value (none when it is absent)
SkippedIds(skipPlugins) ==
  IF skipPlugins = Undefined THEN {}
  ELSE {skipPlugins.v[i] : i \in 1..Len(skipPlugins.v)}

RECURSIVE Remaining(_, _)
\* the registered plugins a call should apply, in registration order:
\* those without an id and those whose id is not excluded
Remaining(registered, excluded) ==
  IF registered = <<>> THEN <<>>
  ELSE LET rest == Remaining(Tail(registered), excluded)
           id == PluginIdOf(Head(registered))
       IN IF id # Undefined /\ id \in excluded THEN rest ELSE <<Head(registered)>> \o rest

\* C1: a request with no exclusions is served by Pn(...(P2(P1(base)))...)
\* for the registry [P1, ..., Pn] it was called with: the function built has
\* the latest-registered plugin outermost and the earliest innermost, and a
\* request that reaches the transport has passed through every wrapper in
\* reverse registration order.
C1_LatestRegisteredIsOutermost ==
  \A r \in InFlight :
    requests[r].options.skipPlugins = Undefined =>
      /\ requests[r].fetcher = Reverse(requests[r].snapshot)
      /\ requests[r].sent # None => Invoked(r, "wrapper") = Reverse(requests[r].snapshot)

\* C2: with an exclusion list S passed as skipPlugins, the plugins applied
\* are exactly the registered plugins without an id or with an id not in S,
\* in registration order; an excluded plugin has neither its decorator nor
\* its wrapper invoked, and every plugin without an id is applied.
C2_ExclusionKeepsOrderedRemainder ==
  \A r \in InFlight :
    LET S == requests[r].options.skipPlugins
        reg == requests[r].snapshot
    IN S # Undefined =>
         /\ Invoked(r, "decorator") = Remaining(reg, SkippedIds(S))
         /\ requests[r].fetcher = Reverse(Remaining(reg, SkippedIds(S)))
         /\ \A i \in 1..Len(reg) :
              /\ (PluginIdOf(reg[i]) \in SkippedIds(S)) =>
                   \A k \in 1..Len(requests[r].log) : requests[r].log[k].plugin # reg[i]
              /\ (PluginIdOf(reg[i]) = Undefined) =>
                   \E k \in 1..Len(requests[r].log) :
                     /\ requests[r].log[k].ev = "decorator"
                     /\ requests[r].log[k].plugin = reg[i]

\* C2's case: three registered plugins, the middle one excluded, the first
\* one without an id, and the two remaining ones applied.
C2_Witness ==
  \E r \in InFlight :
    /\ requests[r].options.skipPlugins # Undefined
    /\ Len(requests[r].snapshot) = 3
    /\ PluginIdOf(requests[r].snapshot[1]) = Undefined
    /\ PluginIdOf(requests[r].snapshot[2]) \in SkippedIds(requests[r].options.skipPlugins)
    /\ PluginIdOf(requests[r].snapshot[3]) \notin SkippedIds(requests[r].options.skipPlugins)
    /\ Len(Invoked(r, "decorator")) = 2

\* C7: the plugins a request applies are exactly the registry contents at
\* the moment the verb function was called (less that call's exclusions),
\* whatever addPlugin or __clearPlugins does after that moment.
C7_SnapshotIsolation ==
  \A r \in InFlight :
    Invoked(r, "decorator") =
      Remaining(requests[r].snapshot, SkippedIds(requests[r].options.skipPlugins))

\* C4: a transport failure never rejects the verb call: the call resolves
\* with a connection-failure result with ok = false, status = 0 and the
\* failure's message, and no verb call ends rejected.
C4_TransportFailureResolves ==
  \A r \in RequestIds :
    /\ requests[r].outcome # None => requests[r].outcome.settled = "fulfilled"
    /\ requests[r].failure # None =>
         /\ requests[r].state = "settled"
         /\ requests[r].outcome.value.t = "ConnectionError"
         /\ requests[r].outcome.value.ok = FALSE
         /\ requests[r].outcome.value.status = 0
         /\ requests[r].outcome.value.message = requests[r].failure.message

\* C4's case: fetch, reached through a plugin, has failed with an abort.
C4_Witness ==
  \E r \in RequestIds :
    /\ requests[r].failure = Error("The user aborted a request.")
    /\ requests[r].state = "settled"
    /\ plugins = <<"anon">>

(***************************************************************************)
(* Properties of handleResponse                                            *)
(***************************************************************************)
\* a call of handleResponse that has run to its end
DispatchSettled == dispatch # None /\ dispatch.phase = "settled"

\* the call's decoder gave a payload
Decoded == DispatchSettled /\ dispatch.decoded.settled = "fulfilled"

\* the name of the status-specific entry for a status
SpecificName(status) ==
  CASE status = 0 -> "on0" [] status = 200 -> "on200" [] status = 204 -> "on204"
    [] status = 400 -> "on400" [] status = 404 -> "on404" [] OTHER -> "on500"

\* C3: the handler is the table's entry for the exact status when there is
\* one, else onOK for an ok response (status 200-299) and onError for any
\* other; it alone is invoked, with the decoded body, and what it returns
\* is what handleResponse returns.
C3_HandlerSelection ==
  Decoded =>
    LET table == dispatch.handlers.keys
        status == dispatch.response.status
        selected == IF SpecificName(status) \in table THEN SpecificName(status)
                    ELSE IF status \in 200..299 THEN "onOK" ELSE "onError"
        body == dispatch.decoded.value
    IN /\ dispatch.invoked = <<[name |-> selected, data |-> body]>>
       /\ dispatch.outcome = Fulfilled([t |-> "returned", by |-> selected, data |-> body])

\* C3's case: status 200 with an on200 entry, and 404 would fall to onError.
C3_Witness ==
  /\ Decoded
  /\ dispatch.response.status = 200
  /\ "on200" \in dispatch.handlers.keys
  /\ "on404" \notin dispatch.handlers.keys
  /\ dispatch.invoked[1].name = "on200"

\* C5: a connection-failure result handled without a custom decoder goes to
\* on0 when the table has one and to onError otherwise (never to onOK), and
\* the handler receives {error: <failure message>}.
C5_ConnectionFailureDispatch ==
  (/\ DispatchSettled
   /\ dispatch.response.t = "ConnectionError"
   /\ dispatch.handlers.decode = None) =>
    /\ Len(dispatch.invoked) = 1
    /\ dispatch.invoked[1].name =
         (IF "on0" \in dispatch.handlers.keys THEN "on0" ELSE "onError")
    /\ dispatch.invoked[1].data =
         Obj(<<<<"error", Str(dispatch.response.error.message)>>>>)

\* C5's case: a connection failure, no on0 entry, handled by onError.
C5_Witness ==
  /\ DispatchSettled
  /\ dispatch.response.t = "ConnectionError"
  /\ dispatch.response.error = Error("The user aborted a request.")
  /\ dispatch.handlers.decode = None
  /\ "on0" \notin dispatch.handlers.keys
  /\ dispatch.invoked[1].name = "onError"

\* C6 as stated: every call of handleResponse invokes exactly one handler
\* exactly once.
C6_AlwaysOneHandler == DispatchSettled => Len(dispatch.invoked) = 1

\* C6 as amended: a call whose decoding succeeds invokes exactly one handler
\* of the table exactly once, a call whose decoding fails invokes none and
\* is rejected with the failure; and no step of handleResponse changes the
\* plugin registry, the verb calls, or the response and table it was given.
C6_OneHandlerWhenDecoded ==
  /\ [](Decoded =>
          /\ Len(dispatch.invoked) = 1
          /\ dispatch.invoked[1].name \in dispatch.handlers.keys)
  /\ []((DispatchSettled /\ ~Decoded) =>
          /\ dispatch.invoked = <<>>
          /\ dispatch.outcome = Rejected(dispatch.decoded.value))
  /\ [][(dispatch' # dispatch) =>
          /\ plugins' = plugins
          /\ requests' = requests
          /\ (dispatch # None /\ dispatch' # None) =>
               /\ dispatch'.response = dispatch.response
               /\ dispatch'.handlers = dispatch.handlers]_vars

\* C6's cases: a call that decoded a JSON body and invoked one handler,
\* with plugins registered.
C6_Witness ==
  /\ Decoded
  /\ dispatch.bodyUsed
  /\ dispatch.decoded.value = Obj(<<<<"data", Str("foo")>>>>)
  /\ Len(dispatch.invoked) = 1
  /\ plugins # <<>>

\* C8 as stated: with status 204 the selected handler always receives
\* undefined and the body is not read.
C8_NoContentAlways ==
  (DispatchSettled /\ dispatch.response.status = 204) =>
    /\ Len(dispatch.invoked) = 1
    /\ dispatch.invoked[1].data = Undefined
    /\ ~dispatch.bodyUsed

\* C8 as amended: with status 204 and no custom decoder, the selected
\* handler receives undefined whatever the declared content type, and the
\* body is not read.
C8_NoContentByDefaultDecoder ==
  (/\ DispatchSettled
   /\ dispatch.response.status = 204
   /\ dispatch.handlers.decode = None) =>
    /\ Len(dispatch.invoked) = 1
    /\ dispatch.invoked[1].data = Undefined
    /\ ~dispatch.bodyUsed

\* C8's case: 204 declared as JSON with a body that is not JSON.
C8_Witness ==
  /\ DispatchSettled
  /\ dispatch.response.status = 204
  /\ dispatch.handlers.decode = None
  /\ HeadersGet(dispatch.response.headers, "Content-Type") = Text(<<"application/json">>)
  /\ ~JsonParse(dispatch.response.body).ok
  /\ dispatch.invoked[1].name = "on204"

(***************************************************************************)
(* Properties of the verb calls                                            *)
(***************************************************************************)
\* a Request object for a URL, as `new Request(url)` gives
RequestObject(url) == [t |-> "Request", url |-> url]

\* C9: a verb called with noFetch: true resolves to a request object for
\* the URL, never calls fetch, and invokes no registered plugin.
C9_NoFetchMakesNoRequest ==
  \A r \in InFlight :
    requests[r].options.noFetch = Bool(TRUE) =>
      /\ requests[r].sent = None
      /\ requests[r].log = <<>>
      /\ requests[r].outcome = Fulfilled(RequestObject(requests[r].url))

\* params is a plain object or an array
IsJsonParams(params) == params.t \in {"obj", "arr"}

\* JSON can express every member of params
JsonExpressible(params) ==
  \A i \in 1..Len(params.v) :
    LET member == IF params.t = "obj" THEN params.v[i][2] ELSE params.v[i]
    IN member.t \in {"num", "str", "bool", "null"}

\* the calls in flight that reached fetch with no plugin in front of it
Direct == {r \in InFlight : requests[r].fetcher = <<>> /\ requests[r].sent # None}

\* what a call sent where: the query string in the URL, and the body
SentInUrl(r, params) ==
  requests[r].sent.url = requests[r].url \o <<"?">> \o QueryStringify(params)

NothingInUrl(r) == requests[r].sent.url = requests[r].url

\* the headers the call was given, with nothing added
HeadersAsGiven(r) ==
  requests[r].sent.init.headers =
    NewHeaders(IF requests[r].options.headers = Undefined THEN <<>>
               ELSE requests[r].options.headers.v)

\* the value the call was given for a header
HeadersAsGivenAt(r, n) ==
  HeadersGet(NewHeaders(IF requests[r].options.headers = Undefined THEN <<>>
                        ELSE requests[r].options.headers.v), n)

\* the body is the JSON text of params, declared as application/json
SentAsJson(r, params) ==
  /\ requests[r].sent.init.body = Text(JsonStringify(params))
  /\ HeadersGet(requests[r].sent.init.headers, "Content-Type") = Text(<<"application/json">>)
  /\ \A n \in DOMAIN requests[r].sent.init.headers :
       n # "content-type" => requests[r].sent.init.headers[n] = HeadersAsGivenAt(r, n)

DecodeFailed ==
  /\ dispatch # None
  /\ \/ /\ dispatch.handlers.decode # None
        /\ dispatch.handlers.decode.name = "failing"
     \/ /\ dispatch.handlers.decode = None
        /\ dispatch.response.t = "Response"
        /\ dispatch.response.status # 204
        /\ Truthy(HeadersGet(dispatch.response.headers, "Content-Type"))
        /\ Head(HeadersGet(dispatch.response.headers, "Content-Type").v) = "application/json"
        /\ ~JsonParse(dispatch.response.body).ok

\* C11: when body decoding fails (the default decoder or a custom decode
\* throws or rejects), handleResponse does not catch it: it rejects with
\* that failure, and no handler is invoked, neither a status-specific one
\* nor onOK nor onError, before or after the failure.
C11_DecodeFailurePropagates ==
  DecodeFailed =>
    /\ dispatch.decoded.settled = "rejected"
    /\ dispatch.invoked = <<>>
    /\ dispatch.phase = "settled" => dispatch.outcome = Rejected(dispatch.decoded.value)

\* C11's case: a 404 whose body is declared JSON (with a charset) and is
\* not, handled with a table that has on404, rejected with the parse error.
C11_Witness ==
  /\ DispatchSettled
  /\ DecodeFailed
  /\ dispatch.handlers.decode = None
  /\ dispatch.response.status = 404
  /\ "on404" \in dispatch.handlers.keys
  /\ Len(HeadersGet(dispatch.response.headers, "Content-Type").v) = 3
  /\ dispatch.outcome = Rejected(Error("Unexpected token in JSON"))


(***************************************************************************)
(* The registry under requests and dispatches together                     *)
(***************************************************************************)

\* the caller of a settled request hands what it resolved with to
\* handleResponse, with the two mandatory handlers
DispatchCall ==
  \E r \in RequestIds :
    /\ requests[r].state = "settled"
    /\ HandleResponse(requests[r].outcome.value,
                      [keys |-> {"onOK", "onError"}, decode |-> None])

\* the verb calls of the registry specification: GET with and without
\* skipPlugins, from any caller
RegistryCall ==
  \E r \in RequestIds, url \in Urls,
     skip \in {Undefined, Arr(<<Str("cache")>>)} :
    CallVerb(r, "GET", url, Options(Undefined, Undefined, skip, Undefined))

\* addPlugin, __clearPlugins, verb calls in flight together and
\* handleResponse calls, in any order
NextRegistry ==
  \/ \E fn \in PluginNames : AddPlugin(fn)
  \/ ClearPlugins
  \/ RegistryCall
  \/ \E r \in RequestIds, response \in TransportResponses : FetchResolve(r, response)
  \/ \E r \in RequestIds : Resume(r)
  \/ DispatchCall
  \/ HandleResponseResume
  \/ HandleResponseReturn

SpecRegistry == Init /\ [][NextRegistry]_vars


\* request r is called in this step
Called(r) ==
  /\ r \notin InFlight
  /\ requests'[r].state \in {"pending", "answered"}

\* the registry changes by one append at the end or by being emptied
AppendsOrEmpties ==
  \/ plugins' = plugins
  \/ \E fn \in PluginNames : plugins' = Append(plugins, fn)
  \/ plugins' = <<>>

\* a step of a request or of a dispatch leaves the registry as it was,
\* unless a decorator of the request called __clearPlugins itself
RequestsLeaveRegistry ==
  (requests' # requests \/ dispatch' # dispatch) =>
    \/ plugins' = plugins
    \/ /\ plugins' = <<>>
       /\ \E r \in RequestIds :
            /\ Called(r)
            /\ \E i \in 1..Len(requests'[r].log) :
                 requests'[r].log[i] = [ev |-> "decorator", plugin |-> "reset"]

\* a request with skipPlugins leaves the excluded plugins registered, and a
\* request without skipPlugins called after it applies every registered
\* plugin
ExclusionIsPerCall ==
  \A q \in RequestIds :
    Called(q) =>
      /\ requests'[q].options.skipPlugins # Undefined =>
           \/ plugins' = plugins
           \/ "reset" \in {requests'[q].log[i].plugin : i \in 1..Len(requests'[q].log)}
      /\ ( /\ requests'[q].options.skipPlugins = Undefined
           /\ \E r \in InFlight : requests[r].options.skipPlugins # Undefined )
         => Invoked(q, "decorator")' = plugins

\* C12: the registry is the sequence of plugins registered since the last
\* __clearPlugins: addPlugin only appends at the end, __clearPlugins empties
\* it, a request or a dispatch never changes it, and an exclusion by
\* skipPlugins holds for its call only, a later request without skipPlugins
\* applying all the registered plugins again.
C12_RegistryFrame ==
  [][AppendsOrEmpties /\ RequestsLeaveRegistry /\ ExclusionIsPerCall]_vars


(***************************************************************************)
(* The order of the build and of the send                                  *)
(***************************************************************************)

\* the plugins registered when request r was called, less its exclusions
Applicable(r) ==
  Remaining(requests[r].snapshot, SkippedIds(requests[r].options.skipPlugins))

\* every decorator invocation of r comes before every wrapper invocation
\* and before the call of fetch
BuiltBeforeSent(r) ==
  \A i, j \in 1..Len(requests[r].log) :
    (i < j /\ requests[r].log[j].ev = "decorator") =>
      requests[r].log[i].ev = "decorator"

\* fetch is called at most once, last, after the wrapper of every plugin
\* of the function built, outermost first; a request is sent exactly when
\* fetch was called
SentThroughWrappers(r) ==
  LET log == requests[r].log
      calls == {i \in 1..Len(log) : log[i].ev = "fetch"}
  IN /\ calls \subseteq {Len(log)}
     /\ (requests[r].sent # None) = (calls # {})
     /\ calls # {} => Invoked(r, "wrapper") = requests[r].fetcher
     /\ ("cache" \in {requests[r].fetcher[i] : i \in 1..Len(requests[r].fetcher)}) =>
          /\ calls = {}
          /\ requests[r].sent = None

\* C13: within one verb call every applicable plugin's decorator is invoked
\* exactly once, in registration order, before the outermost wrapper is
\* invoked and before the transport is called; the transport is reached only
\* through the wrappers, and is not called at all for the request when some
\* wrapper does not call its next function.
C13_BuiltCompletelyBeforeSent ==
  \A r \in InFlight :
    /\ Invoked(r, "decorator") = Applicable(r)
    /\ Len(Invoked(r, "wrapper")) >= 1 => Head(Invoked(r, "wrapper")) = Head(requests[r].fetcher)
    /\ BuiltBeforeSent(r)
    /\ SentThroughWrappers(r)

====
